---------------------------- MODULE Spec2Model ----------------------------
(***************************************************************************)
(* Model of src/hankel.py: symbolic Hankel minors (HankelMatrix), the      *)
(* conjectures about them (Conjecture, Conjecture_1plus2equals3,           *)
(* Conjecture_increment) and the ConjectureLogger.                         *)
(*                                                                         *)
(* Python values are modelled as follows.                                  *)
(*   - An index expression (an int or a sympy Idx expression) is the pair  *)
(*     <<c, k>> standing for c + k*t: sympy keeps sums of such            *)
(*     expressions in one canonical form, so r + c is the componentwise   *)
(*     sum.                                                                *)
(*   - element_symbol[e] is identified by e.                               *)
(*   - A sympy expression built from determinants is a polynomial in the   *)
(*     elements: a function from monomials (bags of elements) to non-zero *)
(*     integer coefficients.                                               *)
(*   - A call that may raise returns [exc |-> "none", val |-> v] or        *)
(*     [exc |-> <exception name>].                                         *)
(*   - None / True / False are the strings "None", "True", "False".        *)
(*   - A rendered LaTeX string is the sequence of its parts.               *)
(***************************************************************************)
EXTENDS Integers, Sequences, FiniteSets, TLC

VARIABLES
    skip_empty_rows,  \* sympy build: Matrix() drops empty rows (newer) or counts them (older)
    short_results,    \* ConjectureLogger.short_results
    long_results,     \* ConjectureLogger.long_results
    files,            \* file name -> lines written by save, or <<"absent">>
    log_calls,        \* instrumentation: number of log calls made
    log_ok,           \* instrumentation: number of log calls that returned
    short_src,        \* instrumentation: per compact entry, [call, valid] it was rendered from
    long_src,         \* instrumentation: per explicit entry, [call, valid] it was rendered from
    last_log,         \* instrumentation: outcome of the last log call
    conj,             \* a Conjecture instance held by a caller
    hard,             \* environment: the simplifier cannot decide this instance's expression
    evals,            \* instrumentation: executions of the equality test on conj
    calls,            \* instrumentation: check()/format() calls made on conj
    ret,              \* outcome of the last check()/format() call on conj
    minor_call        \* outcome of the last direct HankelMatrix.minor call

vars == <<skip_empty_rows, short_results, long_results, files, log_calls, log_ok,
          short_src, long_src, last_log, conj, hard, evals, calls, ret,
          minor_call>>

loggerVars == <<short_results, long_results, files, log_calls, log_ok, short_src,
                long_src, last_log>>

conjVars == <<conj, hard, evals, calls, ret>>

-----------------------------------------------------------------------------
(* Bounds *)

MaxLen == 2
MaxLog == 2
MaxCalls == 3
MaxVal == 2

-----------------------------------------------------------------------------
(* Index expressions *)

Lit(n) == <<n, 0>>

Sym == <<0, 1>>

IdxAdd(a, b) == <<a[1] + b[1], a[2] + b[2]>>

IsSymbolic(e) == e[2] # 0

IndexExprs == {Lit(0), Lit(1), Sym}

Deltas == {Lit(1), Sym}

SeqsUpTo(S, n) == UNION {[1..k -> S] : k \in 0..n}

MinorSpecs == SeqsUpTo(IndexExprs, MaxLen) \X SeqsUpTo(IndexExprs, MaxLen)

-----------------------------------------------------------------------------
(* Python call outcomes *)

Ok(v) == [exc |-> "none", val |-> v]

Raise(e) == [exc |-> e]

-----------------------------------------------------------------------------
(* sympy expressions: polynomials in the Hankel elements *)

ZeroPoly == <<>>

Coef(p, m) == IF m \in DOMAIN p THEN p[m] ELSE 0

PolyAdd(p, q) ==
    LET D == DOMAIN p \cup DOMAIN q
    IN [m \in {x \in D : Coef(p, x) + Coef(q, x) # 0} |-> Coef(p, m) + Coef(q, m)]

PolySub(p, q) ==
    LET D == DOMAIN p \cup DOMAIN q
    IN [m \in {x \in D : Coef(p, x) - Coef(q, x) # 0} |-> Coef(p, m) - Coef(q, m)]

PolySymbolic(p) == \E m \in DOMAIN p : \E a \in DOMAIN m : IsSymbolic(a)

\* Expr.equals: True when the difference simplifies to zero; a non-zero
\* polynomial over literal-index elements is always told apart; one over
\* symbolic-index elements is told apart unless the simplifier gives up (None).
equals(p, q, hd) ==
    LET diff == PolySub(p, q)
    IN IF diff = ZeroPoly THEN "True"
       ELSE IF hd /\ PolySymbolic(diff) THEN "None"
       ELSE "False"

-----------------------------------------------------------------------------
(* sympy matrices *)

\* sp.Matrix(list of rows)
sp_Matrix(dat, skip) ==
    LET kept == IF skip THEN SelectSeq(dat, LAMBDA r : Len(r) > 0) ELSE dat
        lens == {Len(kept[i]) : i \in DOMAIN kept}
    IN IF Cardinality(lens) > 1 THEN Raise("ValueError")
       ELSE IF lens \subseteq {0} THEN Ok([nrows |-> 0, ncols |-> 0, e |-> <<>>])
       ELSE Ok([nrows |-> Len(kept), ncols |-> CHOOSE l \in lens : TRUE, e |-> kept])

\* Mutant of PermSign: every term of the expansion taken with sign +.
PermSignUnsigned(p, n) == 1

PermSign(p, n) ==
    IF Cardinality({ij \in (1..n) \X (1..n) : ij[1] < ij[2] /\ p[ij[1]] > p[ij[2]]}) % 2 = 0
    THEN 1 ELSE -1

PermMonomial(e, p, n) ==
    LET as == {e[i][p[i]] : i \in 1..n}
    IN [a \in as |-> Cardinality({i \in 1..n : e[i][p[i]] = a})]

\* Matrix.det()
det(M) ==
    IF M.nrows # M.ncols THEN Raise("NonSquareMatrixError")
    ELSE LET n == M.nrows
             P == Permutations(1..n)
             ms == {PermMonomial(M.e, p, n) : p \in P}
             coef(m) == Cardinality({p \in P : PermMonomial(M.e, p, n) = m /\ PermSign(p, n) = 1})
                        - Cardinality({p \in P : PermMonomial(M.e, p, n) = m /\ PermSign(p, n) = -1})
         IN Ok([m \in {x \in ms : coef(x) # 0} |-> coef(m)])

-----------------------------------------------------------------------------
(* HankelMatrix *)

matrix_symbol == "H"

\* HankelMatrix.submatrix
submatrix(rows, columns, skip) ==
    sp_Matrix([i \in 1..Len(rows) |-> [j \in 1..Len(columns) |-> IdxAdd(rows[i], columns[j])]], skip)

\* .det() of the outcome of submatrix
det_of(m) == IF m.exc # "none" THEN m ELSE det(m.val)

\* HankelMatrix.minor
minor(rows, columns, skip) == det_of(submatrix(rows, columns, skip))

\* sp.latex(self.matrix_symbol) + sp.latex(mat)
latex_short(mat) == IF mat.exc # "none" THEN mat ELSE Ok(<<matrix_symbol, mat.val.e>>)

\* r'\det ' + sp.latex(mat)
latex_long(mat) == IF mat.exc # "none" THEN mat ELSE Ok(<<"\\det ", mat.val.e>>)

\* HankelMatrix.format_minor
format_minor(rows, columns, short, skip) ==
    IF short THEN latex_short(sp_Matrix(<<rows, columns>>, skip))
    ELSE latex_long(submatrix(rows, columns, skip))

-----------------------------------------------------------------------------
(* Conjecture and its subclasses *)

NoConj == [cls |-> "none"]

\* Conjecture.__init__ and Conjecture_1plus2equals3.__init__
Conjecture_1plus2equals3(minor1, minor2, minor3) ==
    Ok([cls |-> "1plus2equals3", valid |-> "None",
        minor1 |-> minor1, minor2 |-> minor2, minor3 |-> minor3])

\* Mutant of IncrementStep: incremented_rows = rows (no copy), so the increment
\* lands in the caller's rows.
IncrementStepAliased(st, i, delta) ==
    LET incremented_rows == [st.rows EXCEPT ![i] = IdxAdd(st.rows[i], delta)]
    IN IF i > Len(st.columns)
       THEN [st EXCEPT !.exc = "IndexError"]
       ELSE LET incremented_columns ==
                    [st.columns EXCEPT ![i] = IdxAdd(st.columns[i], delta)]
            IN [st EXCEPT !.rows = incremented_rows,
                          !.row_minors = Append(@, <<incremented_rows, st.columns>>),
                          !.column_minors = Append(@, <<incremented_rows, incremented_columns>>)]

\* One pass of the loop body of Conjecture_increment.__init__ at position i.
IncrementStep(st, i, delta) ==
    LET incremented_rows == [st.rows EXCEPT ![i] = IdxAdd(st.rows[i], delta)]
    IN IF i > Len(st.columns)
       THEN [st EXCEPT !.exc = "IndexError",
                       !.row_minors = Append(@, <<incremented_rows, st.columns>>)]
       ELSE LET incremented_columns ==
                    [st.columns EXCEPT ![i] = IdxAdd(st.columns[i], delta)]
            IN [st EXCEPT !.row_minors = Append(@, <<incremented_rows, st.columns>>),
                          !.column_minors = Append(@, <<st.rows, incremented_columns>>)]

RECURSIVE IncrementLoop(_, _, _)
IncrementLoop(st, i, delta) ==
    IF i > Len(st.rows) \/ st.exc # "none" THEN st
    ELSE IncrementLoop(IncrementStep(st, i, delta), i + 1, delta)

\* The instance the constructor leaves once its loop has ended in st.
IncrementMade(st, delta) ==
    IF st.exc # "none" THEN Raise(st.exc)
    ELSE Ok([cls |-> "increment", valid |-> "None",
             base_minor |-> <<st.rows, st.columns>>, delta |-> delta,
             row_minors |-> st.row_minors, column_minors |-> st.column_minors])

\* Conjecture.__init__ and Conjecture_increment.__init__
Conjecture_increment(base_minor, delta) ==
    IncrementMade(IncrementLoop([rows |-> base_minor[1], columns |-> base_minor[2],
                                 exc |-> "none", row_minors |-> <<>>,
                                 column_minors |-> <<>>], 1, delta),
                  delta)

\* conjecture_class(self.matrix, *args)
construct(cls, args) ==
    IF cls = "1plus2equals3" THEN Conjecture_1plus2equals3(args[1], args[2], args[3])
    ELSE Conjecture_increment(args[1], args[2])

\* self.valid = (det1 + det2).equals(det3); return self.valid
check_sum(c, det1, det2, det3, hd) ==
    IF det1.exc # "none" THEN [conj |-> c, exc |-> det1.exc, evals |-> 0]
    ELSE IF det2.exc # "none" THEN [conj |-> c, exc |-> det2.exc, evals |-> 0]
    ELSE IF det3.exc # "none" THEN [conj |-> c, exc |-> det3.exc, evals |-> 0]
    ELSE [conj |-> [c EXCEPT !.valid = equals(PolyAdd(det1.val, det2.val), det3.val, hd)],
          exc |-> "none",
          ret |-> equals(PolyAdd(det1.val, det2.val), det3.val, hd),
          evals |-> 1]

\* Conjecture_1plus2equals3.check
check_1plus2equals3(c, hd, skip) ==
    check_sum(c, minor(c.minor1[1], c.minor1[2], skip),
                 minor(c.minor2[1], c.minor2[2], skip),
                 minor(c.minor3[1], c.minor3[2], skip), hd)

\* expr += d (sign 1) or expr -= d (sign -1): expr starts as the Python int 0
\* (sympy |-> FALSE) and is a sympy expression from the first minor on.
AccumulateStep(expr, d, sign) ==
    IF d.exc # "none" THEN [expr EXCEPT !.exc = d.exc]
    ELSE [exc |-> "none", sympy |-> TRUE,
          p |-> IF sign = 1 THEN PolyAdd(expr.p, d.val) ELSE PolySub(expr.p, d.val)]

\* One of the two accumulation loops of Conjecture_increment.check.
RECURSIVE Accumulate(_, _, _, _, _)
Accumulate(minors, i, expr, sign, skip) ==
    IF i > Len(minors) \/ expr.exc # "none" THEN expr
    ELSE Accumulate(minors, i + 1,
                    AccumulateStep(expr, minor(minors[i][1], minors[i][2], skip), sign),
                    sign, skip)

\* return expr.equals(0)
check_zero(c, expr, hd) ==
    IF expr.exc # "none" THEN [conj |-> c, exc |-> expr.exc, evals |-> 0]
    ELSE IF ~expr.sympy THEN [conj |-> c, exc |-> "AttributeError", evals |-> 0]
    ELSE [conj |-> c, exc |-> "none", ret |-> equals(expr.p, ZeroPoly, hd), evals |-> 1]

\* Conjecture_increment.check
check_increment(c, hd, skip) ==
    check_zero(c,
               Accumulate(c.column_minors, 1,
                          Accumulate(c.row_minors, 1,
                                     [exc |-> "none", sympy |-> FALSE, p |-> ZeroPoly],
                                     1, skip),
                          -1, skip),
               hd)

check(c, hd, skip) ==
    IF c.cls = "1plus2equals3" THEN check_1plus2equals3(c, hd, skip)
    ELSE check_increment(c, hd, skip)

tex_eq(c) == IF c.valid = "True" THEN "=" ELSE "\\neq"

\* '{} + {} {} {}'.format(tex1, tex2, tex_eq, tex3)
format_sum(c, tex1, tex2, tex3) ==
    IF tex1.exc # "none" THEN tex1
    ELSE IF tex2.exc # "none" THEN tex2
    ELSE IF tex3.exc # "none" THEN tex3
    ELSE Ok(<<tex1.val, " + ", tex2.val, " ", tex_eq(c), " ", tex3.val>>)

\* Conjecture_1plus2equals3._format
format_1plus2equals3(c, short, skip) ==
    format_sum(c, format_minor(c.minor1[1], c.minor1[2], short, skip),
                  format_minor(c.minor2[1], c.minor2[2], short, skip),
                  format_minor(c.minor3[1], c.minor3[2], short, skip))

\* ' + '.join: the i-th rendered minor joins the ones before it.
JoinStep(acc, i, tex) ==
    IF tex.exc # "none" THEN tex
    ELSE Ok(IF i = 1 THEN <<tex.val>> ELSE acc.val \o <<" + ", tex.val>>)

\* ' + '.join([sp.latex(format_minor(*minor, short=short)) for minor in minors])
RECURSIVE JoinMinors(_, _, _, _, _)
JoinMinors(minors, i, acc, short, skip) ==
    IF i > Len(minors) \/ acc.exc # "none" THEN acc
    ELSE JoinMinors(minors, i + 1,
                    JoinStep(acc, i, format_minor(minors[i][1], minors[i][2], short, skip)),
                    short, skip)

\* '{} {} {}'.format(row_sum, tex_eq, column_sum)
format_sums(c, row_sum, column_sum) ==
    IF row_sum.exc # "none" THEN row_sum
    ELSE IF column_sum.exc # "none" THEN column_sum
    ELSE Ok(<<row_sum.val, " ", tex_eq(c), " ", column_sum.val>>)

\* Conjecture_increment._format
format_increment(c, short, skip) ==
    format_sums(c, JoinMinors(c.row_minors, 1, Ok(<<>>), short, skip),
                   JoinMinors(c.column_minors, 1, Ok(<<>>), short, skip))

\* self._format(short)
render(c, short, skip) ==
    IF c.cls = "1plus2equals3" THEN format_1plus2equals3(c, short, skip)
    ELSE format_increment(c, short, skip)

\* return self._format(short), on the instance c with `n` executions of the
\* equality test made by this call so far
format_return(c, tex, n) ==
    IF tex.exc # "none" THEN [conj |-> c, exc |-> tex.exc, evals |-> n]
    ELSE [conj |-> c, exc |-> "none", ret |-> tex.val, evals |-> n]

\* self.valid = self.check(), k being the outcome of self.check()
format_checked(k, short, skip) ==
    IF k.exc # "none" THEN k
    ELSE format_return([k.conj EXCEPT !.valid = k.ret],
                       render([k.conj EXCEPT !.valid = k.ret], short, skip), 1)

\* Conjecture.format
format(c, short, hd, skip) ==
    IF c.valid = "None" THEN format_checked(check(c, hd, skip), short, skip)
    ELSE format_return(c, render(c, short, skip), 0)

-----------------------------------------------------------------------------
(* ConjectureLogger *)

NothingAppended == [exc |-> "none", short_done |-> FALSE, long_done |-> FALSE]

\* Mutant of log_long: the explicit rendering of a conjecture that is not valid
\* is not stored.
log_long_valid_only(f1, f2) ==
    IF f2.exc # "none" \/ f2.conj.valid # "True"
    THEN [exc |-> f2.exc, short_done |-> TRUE, short |-> f1.ret,
          short_valid |-> f1.conj.valid, long_done |-> FALSE]
    ELSE [exc |-> "none", short_done |-> TRUE, short |-> f1.ret,
          short_valid |-> f1.conj.valid, long_done |-> TRUE, long |-> f2.ret,
          long_valid |-> f2.conj.valid]

\* self.long_results.append(conjecture.format(False)), f2 being the outcome of
\* the format call
log_long(f1, f2) ==
    IF f2.exc # "none"
    THEN [exc |-> f2.exc, short_done |-> TRUE, short |-> f1.ret,
          short_valid |-> f1.conj.valid, long_done |-> FALSE]
    ELSE [exc |-> "none", short_done |-> TRUE, short |-> f1.ret,
          short_valid |-> f1.conj.valid, long_done |-> TRUE, long |-> f2.ret,
          long_valid |-> f2.conj.valid]

\* self.short_results.append(conjecture.format(True)), f1 being the outcome of
\* the format call
log_short(f1, hd, skip) ==
    IF f1.exc # "none" THEN [NothingAppended EXCEPT !.exc = f1.exc]
    ELSE log_long(f1, format(f1.conj, FALSE, hd, skip))

\* conjecture.check(), k being its outcome
log_checked(k, hd, skip) ==
    IF k.exc # "none" THEN [NothingAppended EXCEPT !.exc = k.exc]
    ELSE log_short(format(k.conj, TRUE, hd, skip), hd, skip)

\* conjecture = conjecture_class(self.matrix, *args), made being its outcome
log_made(made, hd, skip) ==
    IF made.exc # "none" THEN [NothingAppended EXCEPT !.exc = made.exc]
    ELSE log_checked(check(made.val, hd, skip), hd, skip)

\* ConjectureLogger.log as a function of its arguments: what the call appends
\* before it returns or raises.
log(cls, args, hd, skip) == log_made(construct(cls, args), hd, skip)

\* Does some minor specification among the arguments of a log call have
\* len(rows) # len(columns)?  (instrumentation)
Mismatched(cls, args) ==
    IF cls = "1plus2equals3"
    THEN \E i \in 1..3 : Len(args[i][1]) # Len(args[i][2])
    ELSE Len(args[1][1]) # Len(args[1][2])

\* The line save writes for one entry.
dmath(line) == <<"\\begin{dmath}", line, "\\end{dmath}\n">>

\* Mutant of save: the last entry is not written.
save_all_but_last(results) == [i \in 1..(Len(results) - 1) |-> dmath(results[i])]

\* ConjectureLogger.save as a function: the lines written.
save(results) == [i \in 1..Len(results) |-> dmath(results[i])]

\* The file main saves each rendering to.
FileName(short) == IF short THEN "payload_short.tex" ELSE "payload_long.tex"

FileNames == {FileName(short) : short \in BOOLEAN}

Absent == <<"absent">>

-----------------------------------------------------------------------------
(* Inputs *)

\* Minor specifications the logger is driven with: 0 rows against 1 column,
\* h[0], 2 rows against 1 column, h[t], and a 2x2 minor with a repeated row.
LogSpecs ==
    { << <<>>, <<Lit(0)>> >>,
      << <<Lit(0)>>, <<Lit(0)>> >>,
      << <<Lit(0), Lit(1)>>, <<Lit(0)>> >>,
      << <<Sym>>, <<Lit(0)>> >>,
      << <<Lit(0), Lit(0)>>, <<Lit(0), Lit(1)>> >> }

\* h[0]
H0 == << <<Lit(0)>>, <<Lit(0)>> >>

LogArgs(cls) ==
    IF cls = "1plus2equals3"
    THEN {<<a, H0, H0>> : a \in LogSpecs}
    ELSE LogSpecs \X Deltas

Classes == {"1plus2equals3", "increment"}

SpecSymbolic(m) ==
    \/ \E i \in DOMAIN m[1] : IsSymbolic(m[1][i])
    \/ \E i \in DOMAIN m[2] : IsSymbolic(m[2][i])

ArgsSymbolic(cls, args) ==
    IF cls = "1plus2equals3"
    THEN \E i \in 1..3 : SpecSymbolic(args[i])
    ELSE SpecSymbolic(args[1]) \/ IsSymbolic(args[2])

Reverse(q) == [i \in 1..Len(q) |-> q[Len(q) + 1 - i]]

\* Minor specifications related to a base one: itself, its transpose, its rows
\* in reverse order, and its first row repeated.
Related(m) ==
    {m, <<m[2], m[1]>>, <<Reverse(m[1]), m[2]>>, <<[i \in 1..Len(m[1]) |-> m[1][1]], m[2]>>}

Squares(S) == {m \in SeqsUpTo(S, MaxLen) \X SeqsUpTo(S, MaxLen) : Len(m[1]) = Len(m[2])}

SumBases == Squares({Lit(0), Lit(1)}) \cup Squares({Lit(0), Sym})

LitSeq(q) == [i \in 1..Len(q) |-> Lit(q[i])]

\* The first conjecture main logs, at j = 2 and i = 4, and the same with the
\* third row index of minor2 and minor3 swapped.
KnownIdentity ==
    << <<LitSeq(<<0, 1, 2>>), LitSeq(<<0, 2, 3>>)>>,
       <<LitSeq(<<0, 1, 4>>), LitSeq(<<0, 1, 2>>)>>,
       <<LitSeq(<<0, 1, 3>>), LitSeq(<<0, 1, 3>>)>> >>

KnownNonIdentity ==
    << <<LitSeq(<<0, 1, 2>>), LitSeq(<<0, 2, 3>>)>>,
       <<LitSeq(<<0, 1, 3>>), LitSeq(<<0, 1, 2>>)>>,
       <<LitSeq(<<0, 1, 4>>), LitSeq(<<0, 1, 3>>)>> >>

SumArgs ==
    UNION {Related(b) \X Related(b) \X Related(b) : b \in SumBases}
        \cup {KnownIdentity, KnownNonIdentity}

FunctionArgs(cls) ==
    IF cls = "1plus2equals3" THEN SumArgs ELSE MinorSpecs \X Deltas

\* The simplifier can only give up on an expression with symbolic indices.
HardChoices(cls, args) == IF ArgsSymbolic(cls, args) THEN BOOLEAN ELSE {FALSE}

-----------------------------------------------------------------------------
(* State machine *)

NoCall == [op |-> "none"]

Init ==
    /\ skip_empty_rows \in BOOLEAN
    /\ short_results = <<>>
    /\ long_results = <<>>
    /\ files = [f \in FileNames |-> Absent]
    /\ log_calls = 0
    /\ log_ok = 0
    /\ short_src = <<>>
    /\ long_src = <<>>
    /\ last_log = NoCall
    /\ conj = NoConj
    /\ hard = FALSE
    /\ evals = 0
    /\ calls = 0
    /\ ret = NoCall
    /\ minor_call = NoCall

\* The state a log call leaves, r being what it appended and raised.
Logged(r, cls, args) ==
    /\ short_results' = IF r.short_done THEN Append(short_results, r.short)
                        ELSE short_results
    /\ long_results' = IF r.long_done THEN Append(long_results, r.long)
                       ELSE long_results
    /\ short_src' = IF r.short_done
                    THEN Append(short_src, [call |-> log_calls + 1, valid |-> r.short_valid])
                    ELSE short_src
    /\ long_src' = IF r.long_done
                   THEN Append(long_src, [call |-> log_calls + 1, valid |-> r.long_valid])
                   ELSE long_src
    /\ log_ok' = IF r.exc = "none" THEN log_ok + 1 ELSE log_ok
    /\ last_log' = [op |-> "log", exc |-> r.exc, mismatched |-> Mismatched(cls, args),
                    appended |-> r.short_done \/ r.long_done]
    /\ log_calls' = log_calls + 1

\* logger.log(conjecture_class, *args); the caller, like main, makes its log
\* calls before it saves.
Log(cls, args, hd) ==
    /\ \A f \in FileNames : files[f] = Absent
    /\ log_calls < MaxCalls
    /\ Len(short_results) < MaxLog
    /\ Logged(log(cls, args, hd, skip_empty_rows), cls, args)
    /\ UNCHANGED <<skip_empty_rows, files, conj, hard, evals, calls, ret, minor_call>>

\* logger.save(filename, short)
Save(short) ==
    /\ files' = [files EXCEPT ![FileName(short)] =
                     save(IF short THEN short_results ELSE long_results)]
    /\ UNCHANGED <<skip_empty_rows, short_results, long_results, log_calls, log_ok,
                   short_src, long_src, last_log, conj, hard, evals, calls, ret, minor_call>>

\* The state the constructor call leaves, made being its outcome.
Constructed(made, cls, args) ==
    /\ conj' = IF made.exc = "none" THEN made.val ELSE NoConj
    /\ ret' = [op |-> "init", exc |-> made.exc, cls |-> cls, args |-> args]

\* conjecture = conjecture_class(matrix, *args)
New(cls, args, hd) ==
    /\ conj = NoConj
    /\ ret = NoCall
    /\ minor_call = NoCall
    /\ Constructed(construct(cls, args), cls, args)
    /\ hard' = hd
    /\ UNCHANGED <<skip_empty_rows, evals, calls, minor_call>>
    /\ UNCHANGED loggerVars

\* The state a check() or format() call leaves, k being its outcome.
Called(k, op) ==
    /\ conj' = k.conj
    /\ evals' = evals + k.evals
    /\ ret' = IF k.exc = "none" THEN [op |-> op, exc |-> "none", val |-> k.ret]
              ELSE [op |-> op, exc |-> k.exc]
    /\ calls' = calls + 1

\* conjecture.check()
Check ==
    /\ conj # NoConj
    /\ calls < MaxCalls
    /\ Called(check(conj, hard, skip_empty_rows), "check")
    /\ UNCHANGED <<skip_empty_rows, hard, minor_call>>
    /\ UNCHANGED loggerVars

\* conjecture.format(short)
Format(short) ==
    /\ conj # NoConj
    /\ calls < MaxCalls
    /\ Called(format(conj, short, hard, skip_empty_rows),
              IF short THEN "format_short" ELSE "format_long")
    /\ UNCHANGED <<skip_empty_rows, hard, minor_call>>
    /\ UNCHANGED loggerVars

\* The record of a direct minor call, d being its outcome.
MinorCalled(d, rows, columns) ==
    minor_call' = IF d.exc = "none"
                  THEN [op |-> "minor", rows |-> rows, columns |-> columns,
                        exc |-> "none", val |-> d.val]
                  ELSE [op |-> "minor", rows |-> rows, columns |-> columns,
                        exc |-> d.exc]

\* matrix.minor(rows, columns)
Minor(rows, columns) ==
    /\ conj = NoConj
    /\ ret = NoCall
    /\ minor_call = NoCall
    /\ MinorCalled(minor(rows, columns, skip_empty_rows), rows, columns)
    /\ UNCHANGED conjVars
    /\ UNCHANGED loggerVars
    /\ UNCHANGED skip_empty_rows

\* The logger driven by a caller, as in main.
Next ==
    \/ \E cls \in Classes : \E args \in LogArgs(cls) : \E hd \in HardChoices(cls, args) :
          Log(cls, args, hd)
    \/ \E short \in BOOLEAN : Save(short)

Spec == Init /\ [][Next]_vars

\* One Conjecture instance driven by a caller.
NextConj ==
    \/ \E cls \in Classes : \E args \in LogArgs(cls) : \E hd \in HardChoices(cls, args) :
          New(cls, args, hd)
    \/ Check
    \/ \E short \in BOOLEAN : Format(short)

SpecConj == Init /\ [][NextConj]_vars

\* The first check() of a fresh instance.
FirstCheck == calls = 0 /\ Check

\* minor, the constructors and check as functions of their arguments.
NextFunctions ==
    \/ \E m \in MinorSpecs : Minor(m[1], m[2])
    \/ \E cls \in Classes : \E args \in FunctionArgs(cls) : \E hd \in HardChoices(cls, args) :
          New(cls, args, hd)
    \/ FirstCheck

SpecFunctions == Init /\ [][NextFunctions]_vars

-----------------------------------------------------------------------------
(* Values of minors under an assignment of integers to the Hankel elements *)

Values == 0..MaxVal

Without(q, j) == [i \in 1..(Len(q) - 1) |-> IF i < j THEN q[i] ELSE q[i + 1]]

\* Determinant of the submatrix with entry (r, c) = a[r + c], by cofactor
\* expansion along the first row.
RECURSIVE DetVal(_, _, _)
RECURSIVE CofactorSum(_, _, _, _)
CofactorSum(rows, columns, j, a) ==
    IF j > Len(columns) THEN 0
    ELSE (IF j % 2 = 1 THEN 1 ELSE -1) * a[IdxAdd(rows[1], columns[j])]
             * DetVal(Tail(rows), Without(columns, j), a)
         + CofactorSum(rows, columns, j + 1, a)

DetVal(rows, columns, a) ==
    IF Len(rows) = 0 THEN 1 ELSE CofactorSum(rows, columns, 1, a)

Elements(m) == {IdxAdd(m[1][i], m[2][j]) : i \in DOMAIN m[1], j \in DOMAIN m[2]}

MinorVal(m, a) == DetVal(m[1], m[2], a)

\* minor1 + minor2 = minor3 for every assignment of values to the elements
SumIdentity(m1, m2, m3) ==
    \A a \in [Elements(m1) \cup Elements(m2) \cup Elements(m3) -> Values] :
        MinorVal(m1, a) + MinorVal(m2, a) = MinorVal(m3, a)

IsSquare(m) == Len(m[1]) = Len(m[2])

IsPrefix(p, q) == Len(p) <= Len(q) /\ \A i \in 1..Len(p) : p[i] = q[i]

\* The connective of a rendered conjecture.
Connective(c, tex) == IF c.cls = "1plus2equals3" THEN tex[5] ELSE tex[3]

-----------------------------------------------------------------------------
(* Claims *)

\* C1: whatever check() and format() calls are made on an instance, the
\* equality test runs exactly once, on the first call, which resolves the
\* validity; no later call runs it again.  Stated for an instance whose
\* equality test decides and whose last call returned: the test has run exactly
\* once and the validity is resolved.
C1_TestRunsExactlyOnce ==
    (conj # NoConj /\ ~hard /\ calls >= 1 /\ ret.exc = "none")
        => (evals = 1 /\ conj.valid # "None")

\* C2: every rendering stored by log was rendered from a resolved validity
\* (Valid or Invalid, never Unknown), whatever the equality test answered.
C2_RenderedFromResolved ==
    /\ \A k \in DOMAIN short_src : short_src[k].valid # "None"
    /\ \A k \in DOMAIN long_src : long_src[k].valid # "None"

\* C3: after any log calls, failing ones included, the compact and explicit
\* sequences have the same length, the k-th entries of both were rendered by
\* the same log call from the same validity, and a step only ever extends the
\* sequences at the end.
C3_AlignedAppendOnly ==
    /\ [](/\ Len(short_results) = Len(long_results)
          /\ Len(short_src) = Len(short_results)
          /\ Len(long_src) = Len(long_results)
          /\ \A k \in DOMAIN short_src : short_src[k] = long_src[k])
    /\ [][/\ IsPrefix(short_results, short_results')
          /\ IsPrefix(long_results, long_results')
          /\ Len(short_results') <= Len(short_results) + 1]_vars

\* C3 witness: two conjectures of different validity are logged and a log call
\* has failed.
C3_Witness ==
    /\ Len(short_results) = 2
    /\ Len(long_results) = 2
    /\ short_src[1].valid # short_src[2].valid
    /\ log_calls > log_ok

\* C4: minor returns a determinant when len(rows) = len(columns) and raises
\* when len(rows) # len(columns).
C4_MinorRaisesIffMismatched ==
    minor_call.op = "minor"
        => ((Len(minor_call.rows) = Len(minor_call.columns)) <=> (minor_call.exc = "none"))

\* C5: a log call with a minor specification whose rows and columns differ in
\* length raises and leaves both sequences as they were.
C5_MismatchedLogFailsFast ==
    (last_log.op = "log" /\ last_log.mismatched)
        => (last_log.exc # "none" /\ ~last_log.appended)

\* The equality test of the instance held cannot decide its expression.
Undecided ==
    /\ conj # NoConj
    /\ check(conj, hard, skip_empty_rows).exc = "none"
    /\ check(conj, hard, skip_empty_rows).ret = "None"

\* C6: when the equality test cannot decide, check() yields false, the cached
\* validity becomes Invalid and the renderings use the negated connective.
C6_UndecidedIsInvalid ==
    (Undecided /\ calls >= 1 /\ ret.exc = "none")
        => /\ conj.valid = "False"
           /\ ret.op = "check" => ret.val = "False"
           /\ ret.op # "check" => Connective(conj, ret.val) = "\\neq"

\* C7: for a base specification with len(rows) = len(columns) and any delta,
\* Conjecture_increment.check() returns Valid.
C7_IncrementIsValid ==
    (conj # NoConj /\ conj.cls = "increment" /\ IsSquare(conj.base_minor) /\ ret.op = "check")
        => (ret.exc = "none" /\ ret.val = "True")

\* What C7 leaves out: a base specification with at least one row.
IncrementNonEmptyIsValid ==
    (conj # NoConj /\ conj.cls = "increment" /\ IsSquare(conj.base_minor) /\ ret.op = "check"
         /\ Len(conj.base_minor[1]) >= 1)
        => (ret.exc = "none" /\ ret.val = "True")

\* C8: for three square minor specifications, check() returns and caches Valid
\* exactly when minor1 + minor2 = minor3 for every assignment of values to the
\* Hankel elements; it is Valid for the known identity and Invalid for the
\* triple with the third row index of minor2 and minor3 swapped.
C8_SumValidIffIdentity ==
    (conj # NoConj /\ conj.cls = "1plus2equals3" /\ ret.op = "check"
         /\ IsSquare(conj.minor1) /\ IsSquare(conj.minor2) /\ IsSquare(conj.minor3))
        => /\ ret.exc = "none"
           /\ conj.valid = ret.val
           /\ (ret.val = "True") <=> SumIdentity(conj.minor1, conj.minor2, conj.minor3)
           /\ <<conj.minor1, conj.minor2, conj.minor3>> = KnownIdentity => ret.val = "True"
           /\ <<conj.minor1, conj.minor2, conj.minor3>> = KnownNonIdentity => ret.val = "False"

\* C8 witness: the known identity has been checked and found Valid.
C8_Witness ==
    /\ conj # NoConj
    /\ conj.cls = "1plus2equals3"
    /\ <<conj.minor1, conj.minor2, conj.minor3>> = KnownIdentity
    /\ ret.op = "check"
    /\ ret.exc = "none"
    /\ ret.val = "True"

BothSaved == \A f \in FileNames : files[f] # Absent

\* C9 as stated: after the log calls and a save in each mode, both files have
\* as many lines as log calls were made.
C9_LinesEqualLogCalls ==
    BothSaved
        => /\ Len(files[FileName(TRUE)]) = Len(files[FileName(FALSE)])
           /\ Len(files[FileName(TRUE)]) = log_calls

\* C9 amended: after the log calls and a save in each mode, both files have as
\* many lines as log calls returned without raising, the k-th line of each is
\* the k-th entry of its sequence between the dmath delimiters, and a save
\* changes neither sequence.
C9_LinesEqualCompletedLogs ==
    /\ [](BothSaved
            => /\ Len(files[FileName(TRUE)]) = Len(files[FileName(FALSE)])
               /\ Len(files[FileName(TRUE)]) = log_ok
               /\ \A k \in 1..log_ok :
                     /\ files[FileName(TRUE)][k]
                            = <<"\\begin{dmath}", short_results[k], "\\end{dmath}\n">>
                     /\ files[FileName(FALSE)][k]
                            = <<"\\begin{dmath}", long_results[k], "\\end{dmath}\n">>)
    /\ [][files' # files => (short_results' = short_results /\ long_results' = long_results)]_vars

\* C9 witness: both files are written after two log calls returned and one raised.
C9_Witness ==
    /\ BothSaved
    /\ log_ok = 2
    /\ log_calls > log_ok

\* C10: from a base specification of equal length n the constructor makes n
\* row-incremented and n column-incremented minors; the i-th ones differ from
\* the base only by delta added at position i of the rows, respectively of the
\* columns; the base specification itself is unchanged.
C10_OneIncrementPerPosition ==
    (ret.op = "init" /\ ret.cls = "increment" /\ IsSquare(ret.args[1]))
        => /\ ret.exc = "none"
           /\ conj.base_minor = ret.args[1]
           /\ Len(conj.row_minors) = Len(ret.args[1][1])
           /\ Len(conj.column_minors) = Len(ret.args[1][1])
           /\ \A i \in 1..Len(ret.args[1][1]) :
                 /\ conj.row_minors[i][2] = ret.args[1][2]
                 /\ conj.column_minors[i][1] = ret.args[1][1]
                 /\ Len(conj.row_minors[i][1]) = Len(ret.args[1][1])
                 /\ Len(conj.column_minors[i][2]) = Len(ret.args[1][2])
                 /\ \A j \in 1..Len(ret.args[1][1]) :
                       /\ conj.row_minors[i][1][j] =
                              IF j = i THEN IdxAdd(ret.args[1][1][j], ret.args[2])
                              ELSE ret.args[1][1][j]
                       /\ conj.column_minors[i][2][j] =
                              IF j = i THEN IdxAdd(ret.args[1][2][j], ret.args[2])
                              ELSE ret.args[1][2][j]

\* C10 witness: an instance made from a 2x2 base specification with a symbolic
\* delta.
C10_Witness ==
    /\ ret.op = "init"
    /\ ret.cls = "increment"
    /\ ret.exc = "none"
    /\ Len(ret.args[1][1]) = 2
    /\ Len(ret.args[1][2]) = 2
    /\ IsSymbolic(ret.args[2])
    /\ Len(conj.row_minors) = 2

=============================================================================
